---- MODULE Spec2Model ----
(***************************************************************************)
(* Model of the three notebooks.                                           *)
(*  - Shor factoring cell (src/unnamed/part_000, lines 688-720): base      *)
(*    sampling, the co-primality branch, the quantum subroutine seen       *)
(*    through its measured integer, and the classical post-processing.     *)
(*    Spec runs it for toFactor in 2 .. MaxN, SpecScenario for the shipped *)
(*    toFactor, SpecTwo runs the post-processing twice on the shared       *)
(*    module-level names, SpecFair adds progress.                          *)
(*  - QAOA functions (src/qaoa.ipynb): SpecQaoa.                           *)
(*  - Noise-mitigation executor (src/unnamed/part_000, lines 153-282):     *)
(*    SpecZne.                                                             *)
(***************************************************************************)
EXTENDS Integers, Sequences, FiniteSets, TLC

\* Largest value of toFactor explored (the notebook lets the reader change it).
MaxN == 21

\* Largest measured integer explored; it covers the whole register
\* 0 .. 2^n - 1 for every toFactor up to 32.
MaxMeasured == 31

\* QAOA inputs explored: graphs on up to MaxNodes nodes (and the notebook's
\* own graph), shots, the p handed to get_expectation, and the length of the
\* parameter vector.
MaxNodes == 3
MaxShots == 2
MaxP == 1
MaxThetaLen == 4

\* Register width and shots explored for the noise-mitigation notebook (the
\* notebook itself uses 10 qubits and 10^6 shots).
MaxZneQubits == 2
MaxZneShots == 2

\* Largest toFactor and largest measured integer of the two-invocation runs.
MaxPairN == 8
MaxPairY == 1

\* The module-level state of the Shor cell.
VARIABLES toFactor, pc, base, qubitCount, y, r, apowrhalf, f1, f2,
          bound, out, raised

\* Two invocations of the post-processing statements sharing the module-level
\* names r, apowrhalf, f1, f2: their inputs, positions and results, and
\* whether a step of one ran while the other was between its first and last
\* step.
VARIABLES args, pcOf, result, interleaved

\* The QAOA notebook: the arguments of get_expectation, the parameter vector
\* of one call of the executor it returns, the position in that call, the
\* layer index and the gates applied so far in run_qaoa_circ, the measured
\* Counter, the values maxcut_obj returned, and the returned expectation.
VARIABLES G, pArg, shots, theta, qpc, irep, gates, counts, objOf,
          expectation, qraised

\* The noise-mitigation notebook: the module-level shots and key, the counts
\* of the latest run, the value the latest run computed, and the position.
VARIABLES zshots, zqubits, key, zcounts, value, zpc

shorVars == <<toFactor, pc, base, qubitCount, y, r, apowrhalf, f1, f2,
              bound, out, raised>>

pairVars == <<args, pcOf, result, interleaved>>

\* Everything but the Shor cell's own state.
qaoaVars == <<G, pArg, shots, theta, qpc, irep, gates, counts, objOf,
              expectation, qraised>>

zneVars == <<zshots, zqubits, key, zcounts, value, zpc>>

otherVars == <<pairVars, qaoaVars, zneVars>>

vars == <<shorVars, otherVars>>

----------------------------------------------------------------------------
\* Library functions the cell calls, computed as Python computes them.

Abs(i) == IF i < 0 THEN -i ELSE i

RECURSIVE Euclid(_, _)
Euclid(m, n) == IF n = 0 THEN m ELSE Euclid(n, m % n)

\* math.gcd: non-negative, gcd(0, n) = n, sign of the arguments ignored.
gcd(m, n) == Euclid(Abs(m), Abs(n))

RECURSIVE Pow2(_)
Pow2(k) == IF k = 0 THEN 1 ELSE 2 * Pow2(k - 1)

\* math.ceil(math.log2(n)) for n >= 1: least k with 2^k >= n.
RECURSIVE CeilLog2From(_, _)
CeilLog2From(n, k) == IF Pow2(k) >= n THEN k ELSE CeilLog2From(n, k + 1)

CeilLog2(n) == CeilLog2From(n, 0)

\* pow(b, e, m), three-argument form, by repeated squaring.
RECURSIVE pow(_, _, _)
pow(b, e, m) ==
  IF e = 0 THEN 1 % m
  ELSE IF e % 2 = 0
       THEN LET h == pow(b, e \div 2, m) IN (h * h) % m
       ELSE (b * pow(b, e - 1, m)) % m

\* fractions.Fraction(n, d): the value in lowest terms, d > 0.
Fraction(n, d) ==
  LET g == gcd(n, d) IN [numerator |-> n \div g, denominator |-> d \div g]

\* Fraction(y) for an int y (the cell's call): y/1, nothing is divided.
FractionOfIntMutant(i) == Fraction(i, 32)
FractionOfInt(i) == Fraction(i, 1)

\* The continued-fraction loop of Fraction.limit_denominator; the value at
\* the break is <<p0, q0, p1, q1>>.
RECURSIVE ConvergentLoop(_, _, _, _, _, _, _)
ConvergentLoop(p0, q0, p1, q1, n, d, max_denominator) ==
  LET a  == n \div d
      q2 == q0 + a * q1
  IN IF q2 > max_denominator
     THEN <<p0, q0, p1, q1>>
     ELSE ConvergentLoop(p1, q1, p0 + a * p1, q2, d, n - a * d,
                         max_denominator)

\* |u - v| <= |w - v| for fractions u, w, v (cross-multiplied).
CloserOrEqual(u, w, v) ==
  Abs(u.numerator * v.denominator - v.numerator * u.denominator) * w.denominator
    <= Abs(w.numerator * v.denominator - v.numerator * w.denominator) * u.denominator

\* Fraction.limit_denominator raises ValueError for a bound below 1.
LimitDenominatorRaises(max_denominator) == max_denominator < 1

\* Fraction.limit_denominator(max_denominator), for max_denominator >= 1.
limit_denominator(self, max_denominator) ==
  IF self.denominator <= max_denominator THEN self
  ELSE LET c == ConvergentLoop(0, 1, 1, 0, self.numerator, self.denominator,
                               max_denominator)
           k == (max_denominator - c[2]) \div c[4]
           bound1 == Fraction(c[1] + k * c[3], c[2] + k * c[4])
           bound2 == Fraction(c[3], c[4])
       IN IF CloserOrEqual(bound2, bound1, self) THEN bound2 ELSE bound1

----------------------------------------------------------------------------
\* The cell's own expressions.

\* The values int(random.random() * toFactor) can take: random() is in [0, 1).
SampledBases(N) == 0 .. (N - 1)

\* Line 689: `not gcd(base, toFactor) == 1`.
NonCoprimeMutant(b, N) == gcd(b, N) = 1
NonCoprime(b, N) == ~(gcd(b, N) = 1)

Min(i, j) == IF i <= j THEN i ELSE j

\* The integers the measured register of qubitCount qubits can hold
\* (explored up to MaxMeasured).
MeasuredValues(n) == 0 .. Min(Pow2(n) - 1, MaxMeasured)

\* Line 707: the bound handed to limit_denominator.
MaxDenominatorMutant(N) == N - 3
MaxDenominator(N) == N - 1

\* Line 707: the period candidate.
PeriodCandidateMutant(m, N) ==
  limit_denominator(FractionOfInt(m), MaxDenominator(N)).numerator
PeriodCandidate(m, N) ==
  limit_denominator(FractionOfInt(m), MaxDenominator(N)).denominator

\* Lines 710-711: an odd candidate is doubled.
DoubledMutant(p) == p
Doubled(p) == IF p % 2 # 0 THEN p * 2 ELSE p

\* Line 712: the exponent r >> 1.
HalfExponentMutant(p) == p
HalfExponent(p) == p \div 2

\* Line 715: the guard of the composite-correction pass.  int(1.0 * N / p)
\* truncates a positive quotient, which is N \div p.
CorrectionAppliesMutant(g1, g2, N) ==
  /\ g1 * g2 > 1
  /\ (N \div (g1 * g2)) * g1 * g2 = N
CorrectionApplies(g1, g2, N) ==
  /\ ~(g1 * g2 = N)
  /\ g1 * g2 > 1
  /\ (N \div (g1 * g2)) * g1 * g2 = N

\* Line 715 divides by f1 * f2 once the first two conjuncts hold.
CorrectionRaises(g1, g2, N) ==
  /\ ~(g1 * g2 = N)
  /\ g1 * g2 > 1
  /\ g1 * g2 = 0

\* Line 716: the replacement pair.
CorrectedPairMutant(g1, g2, N) == <<g1 * g2, N \div g1>>
CorrectedPair(g1, g2, N) == <<g1 * g2, N \div (g1 * g2)>>

\* Line 717: the success test.
IsSuccessNoProduct(g1, g2, N) == g1 > 1 /\ g2 > 1
IsSuccessNoLowerBound(g1, g2, N) == g1 * g2 = N
IsSuccess(g1, g2, N) == g1 * g2 = N /\ g1 > 1 /\ g2 > 1

\* Line 720 is the last statement of the cell: after 'Failed' the run is over.
AfterFailureMutant == "sample"
AfterFailure == "done"

\* A printed line.
Line(kind, v1, v2) == [kind |-> kind, v1 |-> v1, v2 |-> v2]

\* No result yet.
NoLine == Line("None", 0, 0)

\* The noise-mitigation state while another notebook runs.
ZneIdle ==
  /\ zshots = 0
  /\ zqubits = 0
  /\ key = <<>>
  /\ zcounts = <<>>
  /\ value = [numerator |-> 0, denominator |-> 1]
  /\ zpc = "idle"

\* The QAOA state while another notebook runs.
QaoaIdle ==
  /\ G = [n |-> 0, edges |-> <<>>]
  /\ pArg = 0
  /\ shots = 0
  /\ theta = <<>>
  /\ qpc = "returned"
  /\ irep = 0
  /\ gates = <<>>
  /\ counts = <<>>
  /\ objOf = <<>>
  /\ expectation = [numerator |-> 0, denominator |-> 1]
  /\ qraised = FALSE

\* The two-invocation state while only the single cell runs.
PairIdle ==
  /\ args = [i \in 1 .. 2 |-> [N |-> 0, a |-> 0, y |-> 0]]
  /\ pcOf = [i \in 1 .. 2 |-> "done"]
  /\ result = [i \in 1 .. 2 |-> NoLine]
  /\ interleaved = FALSE

----------------------------------------------------------------------------
\* State machine: one run of the cell.

Init ==
  /\ toFactor \in 2 .. MaxN
  /\ pc = "sample"
  /\ base = 0
  /\ qubitCount = 0
  /\ y = 0
  /\ r = 0
  /\ apowrhalf = 0
  /\ f1 = 0
  /\ f2 = 0
  /\ bound = {}
  /\ out = <<>>
  /\ raised = FALSE
  /\ PairIdle
  /\ QaoaIdle
  /\ ZneIdle

\* Line 688.
SampleBase ==
  /\ pc = "sample"
  /\ \E b \in SampledBases(toFactor) : base' = b
  /\ bound' = bound \cup {"base"}
  /\ pc' = "branch"
  /\ UNCHANGED <<toFactor, qubitCount, y, r, apowrhalf, f1, f2, out, raised>>
  /\ UNCHANGED otherVars

\* Lines 689-691.
ReportNonCoprime ==
  /\ pc = "branch"
  /\ NonCoprime(base, toFactor)
  /\ out' = out \o <<Line("NonRelativePrime", 0, 0),
                     Line("Factor", gcd(base, toFactor), 0)>>
  /\ pc' = "done"
  /\ UNCHANGED <<toFactor, base, qubitCount, y, r, apowrhalf, f1, f2,
                 bound, raised>>
  /\ UNCHANGED otherVars

\* Lines 692-706: the quantum subroutine, seen through the measured integer.
QuantumSubroutine ==
  /\ pc = "branch"
  /\ ~NonCoprime(base, toFactor)
  /\ qubitCount' = CeilLog2(toFactor)
  /\ \E m \in MeasuredValues(qubitCount') : y' = m
  /\ bound' = bound \cup {"qubitCount", "y"}
  /\ pc' = "period"
  /\ UNCHANGED <<toFactor, base, r, apowrhalf, f1, f2, out, raised>>
  /\ UNCHANGED otherVars

\* Line 707.
PeriodExtraction ==
  /\ pc = "period"
  /\ IF LimitDenominatorRaises(MaxDenominator(toFactor))
     THEN /\ raised' = TRUE
          /\ pc' = "done"
          /\ UNCHANGED <<r, bound>>
     ELSE /\ r' = PeriodCandidate(y, toFactor)
          /\ bound' = bound \cup {"r"}
          /\ pc' = "double"
          /\ UNCHANGED raised
  /\ UNCHANGED <<toFactor, base, qubitCount, y, apowrhalf, f1, f2, out>>
  /\ UNCHANGED otherVars

\* Lines 710-711.
Doubling ==
  /\ pc = "double"
  /\ r' = Doubled(r)
  /\ pc' = "modexp"
  /\ UNCHANGED <<toFactor, base, qubitCount, y, apowrhalf, f1, f2,
                 bound, out, raised>>
  /\ UNCHANGED otherVars

\* Line 712.
ModExp ==
  /\ pc = "modexp"
  /\ apowrhalf' = pow(base, HalfExponent(r), toFactor)
  /\ bound' = bound \cup {"apowrhalf"}
  /\ pc' = "gcds"
  /\ UNCHANGED <<toFactor, base, qubitCount, y, r, f1, f2, out, raised>>
  /\ UNCHANGED otherVars

\* Lines 713-714.
Gcds ==
  /\ pc = "gcds"
  /\ f1' = gcd(apowrhalf + 1, toFactor)
  /\ f2' = gcd(apowrhalf - 1, toFactor)
  /\ bound' = bound \cup {"f1", "f2"}
  /\ pc' = "correct"
  /\ UNCHANGED <<toFactor, base, qubitCount, y, r, apowrhalf, out, raised>>
  /\ UNCHANGED otherVars

\* Lines 715-716.
Correction ==
  /\ pc = "correct"
  /\ IF CorrectionRaises(f1, f2, toFactor)
     THEN /\ raised' = TRUE
          /\ pc' = "done"
          /\ UNCHANGED <<f1, f2>>
     ELSE /\ IF CorrectionApplies(f1, f2, toFactor)
             THEN /\ f1' = CorrectedPair(f1, f2, toFactor)[1]
                  /\ f2' = CorrectedPair(f1, f2, toFactor)[2]
             ELSE UNCHANGED <<f1, f2>>
          /\ pc' = "test"
          /\ UNCHANGED raised
  /\ UNCHANGED <<toFactor, base, qubitCount, y, r, apowrhalf, bound, out>>
  /\ UNCHANGED otherVars

\* Lines 717-720.
SuccessTest ==
  /\ pc = "test"
  /\ IF IsSuccess(f1, f2, toFactor)
     THEN out' = Append(out, Line("FactorsFound", f1, f2))
     ELSE out' = Append(out, Line("Failed", f1, f2))
  /\ pc' = IF IsSuccess(f1, f2, toFactor) THEN "done" ELSE AfterFailure
  /\ UNCHANGED <<toFactor, base, qubitCount, y, r, apowrhalf, f1, f2,
                 bound, raised>>
  /\ UNCHANGED otherVars

Next ==
  \/ SampleBase
  \/ ReportNonCoprime
  \/ QuantumSubroutine
  \/ PeriodExtraction
  \/ Doubling
  \/ ModExp
  \/ Gcds
  \/ Correction
  \/ SuccessTest

Spec == Init /\ [][Next]_vars

\* The interpreter runs the cell's next statement as long as there is one.
SpecFair == Spec /\ WF_vars(Next)

\* Line 657: the value of toFactor the notebook ships with.
ShippedToFactor == 16373

\* One run of the cell on the shipped toFactor.
InitScenario ==
  /\ toFactor = ShippedToFactor
  /\ pc = "sample"
  /\ base = 0
  /\ qubitCount = 0
  /\ y = 0
  /\ r = 0
  /\ apowrhalf = 0
  /\ f1 = 0
  /\ f2 = 0
  /\ bound = {}
  /\ out = <<>>
  /\ raised = FALSE
  /\ PairIdle
  /\ QaoaIdle
  /\ ZneIdle

SpecScenario == InitScenario /\ [][Next]_vars

----------------------------------------------------------------------------
\* Two invocations of the post-processing statements (lines 707-720) on
\* their own inputs (N, a, y), interleaved statement by statement.  The
\* statements assign and read the module-level names r, apowrhalf, f1, f2,
\* of which there is one copy.

\* Inputs within the resolver's contract: N >= 3, 1 < a < N coprime to N,
\* y in the register.
Triples ==
  {t \in [N : 3 .. MaxPairN, a : 2 .. (MaxPairN - 1), y : 0 .. MaxPairY] :
     /\ t.a < t.N
     /\ gcd(t.a, t.N) = 1
     /\ t.y \in MeasuredValues(CeilLog2(t.N))}

InitTwo ==
  /\ toFactor = 0
  /\ pc = "done"
  /\ base = 0
  /\ qubitCount = 0
  /\ y = 0
  /\ r = 0
  /\ apowrhalf = 0
  /\ f1 = 0
  /\ f2 = 0
  /\ bound = {}
  /\ out = <<>>
  /\ raised = FALSE
  /\ args \in [1 .. 2 -> Triples]
  /\ pcOf = [i \in 1 .. 2 |-> "period"]
  /\ result = [i \in 1 .. 2 |-> NoLine]
  /\ interleaved = FALSE
  /\ QaoaIdle
  /\ ZneIdle

\* The other invocation has run its first statement and not yet its last.
OtherMidRun(i) == pcOf[3 - i] \notin {"period", "done"}

\* Bookkeeping common to every statement of invocation i.
StepOf(i, from, to) ==
  /\ pcOf[i] = from
  /\ pcOf' = [pcOf EXCEPT ![i] = to]
  /\ interleaved' = (interleaved \/ OtherMidRun(i))
  /\ UNCHANGED <<toFactor, pc, base, qubitCount, y, bound, out, raised, args>>
  /\ UNCHANGED <<qaoaVars, zneVars>>

\* Line 707.
PeriodExtractionOf(i) ==
  /\ StepOf(i, "period", "double")
  /\ r' = PeriodCandidate(args[i].y, args[i].N)
  /\ UNCHANGED <<apowrhalf, f1, f2, result>>

\* Lines 710-711.
DoublingOf(i) ==
  /\ StepOf(i, "double", "modexp")
  /\ r' = Doubled(r)
  /\ UNCHANGED <<apowrhalf, f1, f2, result>>

\* Line 712.
ModExpOf(i) ==
  /\ StepOf(i, "modexp", "gcds")
  /\ apowrhalf' = pow(args[i].a, HalfExponent(r), args[i].N)
  /\ UNCHANGED <<r, f1, f2, result>>

\* Lines 713-714.
GcdsOf(i) ==
  /\ StepOf(i, "gcds", "correct")
  /\ f1' = gcd(apowrhalf + 1, args[i].N)
  /\ f2' = gcd(apowrhalf - 1, args[i].N)
  /\ UNCHANGED <<r, apowrhalf, result>>

\* Lines 715-716.
CorrectionOf(i) ==
  /\ StepOf(i, "correct", "test")
  /\ IF CorrectionApplies(f1, f2, args[i].N)
     THEN /\ f1' = CorrectedPair(f1, f2, args[i].N)[1]
          /\ f2' = CorrectedPair(f1, f2, args[i].N)[2]
     ELSE UNCHANGED <<f1, f2>>
  /\ UNCHANGED <<r, apowrhalf, result>>

\* Lines 717-720.
SuccessTestOf(i) ==
  /\ StepOf(i, "test", "done")
  /\ result' = [result EXCEPT ![i] =
                  IF IsSuccess(f1, f2, args[i].N)
                  THEN Line("FactorsFound", f1, f2)
                  ELSE Line("Failed", f1, f2)]
  /\ UNCHANGED <<r, apowrhalf, f1, f2>>

NextTwo ==
  \E i \in 1 .. 2 :
    \/ PeriodExtractionOf(i)
    \/ DoublingOf(i)
    \/ ModExpOf(i)
    \/ GcdsOf(i)
    \/ CorrectionOf(i)
    \/ SuccessTestOf(i)

SpecTwo == InitTwo /\ [][NextTwo]_vars

----------------------------------------------------------------------------
\* The QAOA notebook (src/qaoa.ipynb).

\* The least pair of a non-empty set of pairs, lexicographically.
LeastPair(S) ==
  CHOOSE e \in S : \A f \in S : e[1] < f[1] \/ (e[1] = f[1] /\ e[2] <= f[2])

\* G.edges() of a graph whose edges were added in sorted order: the edges
\* (u, v), u < v, in lexicographic order.
RECURSIVE EdgeList(_)
EdgeList(S) ==
  IF S = {} THEN <<>>
  ELSE LET e == LeastPair(S) IN <<e>> \o EdgeList(S \ {e})

PossibleEdges(n) == {e \in (0 .. (n - 1)) \X (0 .. (n - 1)) : e[1] < e[2]}

\* Lines 50-52: the notebook's graph, a 4-cycle; G.edges() reports it as
\* (0,1), (0,3), (1,2), (2,3).
NotebookGraph ==
  [n |-> 4, edges |-> EdgeList({<<0, 1>>, <<1, 2>>, <<2, 3>>, <<0, 3>>})]

Graphs ==
  {[n |-> k, edges |-> EdgeList(E)] :
     k \in 1 .. MaxNodes, E \in SUBSET PossibleEdges(MaxNodes)}
  \cup {NotebookGraph}

\* A graph's edges join its own nodes.
WellFormed(g) == \A k \in 1 .. Len(g.edges) : g.edges[k][2] < g.n

\* (x >> i) & 1.
Bit(x, i) == (x \div Pow2(i)) % 2

\* maxcut_obj, lines 81-86: obj starts at 0 and is decremented for every
\* edge whose endpoints have different bits.
RECURSIVE MaxcutLoop(_, _, _, _)
MaxcutLoop(x, edges, k, obj) ==
  IF k > Len(edges) THEN obj
  ELSE MaxcutLoop(x, edges, k + 1,
                  IF Bit(x, edges[k][1]) # Bit(x, edges[k][2])
                  THEN obj - 1 ELSE obj)

maxcut_obj(x, g) == MaxcutLoop(x, g.edges, 1, 0)

\* collections.Counter of a list of samples.
Counter(samples) ==
  [b \in {samples[k] : k \in DOMAIN samples} |->
     Cardinality({k \in DOMAIN samples : samples[k] = b})]

\* Lines 105-111: the loop over counts.items(), returning <<avg, sum_count>>.
RECURSIVE ExpectationLoop(_, _, _, _, _)
ExpectationLoop(c, todo, g, avg, sum_count) ==
  IF todo = {} THEN <<avg, sum_count>>
  ELSE LET bitstring == CHOOSE b \in todo : TRUE
           obj == maxcut_obj(bitstring, g)
       IN ExpectationLoop(c, todo \ {bitstring}, g,
                          avg + obj * c[bitstring], sum_count + c[bitstring])

\* Line 113 divides by sum_count.
ComputeExpectationRaises(c, g) ==
  ExpectationLoop(c, DOMAIN c, g, 0, 0)[2] = 0

\* compute_expectation, lines 105-113: avg / sum_count, as the exact
\* quotient.
compute_expectationMutant(c, g) ==
  LET t == ExpectationLoop(c, DOMAIN c, g, 0, 0)
  IN Fraction(t[1], Cardinality(DOMAIN c))
compute_expectation(c, g) ==
  LET t == ExpectationLoop(c, DOMAIN c, g, 0, 0)
  IN Fraction(t[1], t[2])

\* Line 131: the number of alternating unitaries run_qaoa_circ applies.
Repetitions(th) == Len(th) \div 2

\* Lines 134-135: beta = theta[:p], gamma = theta[p:].
Beta(th) == SubSeq(th, 1, Repetitions(th))
Gamma(th) == SubSeq(th, Repetitions(th) + 1, Len(th))

Gate(name, control, target, angle) ==
  [name |-> name, control |-> control, target |-> target, angle |-> angle]

\* Lines 138-139.
InitialStateGates(g) ==
  [i \in 1 .. g.n |-> Gate("h", -1, i - 1, 0)]

\* Lines 144-147, for one edge.
EdgeGatesMutant(pair, angle) ==
  << Gate("mcx", pair[1], pair[2], 0),
     Gate("rz", -1, pair[1], 2 * angle),
     Gate("mcx", pair[1], pair[2], 0) >>
EdgeGates(pair, angle) ==
  << Gate("mcx", pair[1], pair[2], 0),
     Gate("rz", -1, pair[2], 2 * angle),
     Gate("mcx", pair[1], pair[2], 0) >>

\* Lines 144-147.
RECURSIVE ProblemGatesFrom(_, _, _)
ProblemGatesFrom(edges, k, angle) ==
  IF k > Len(edges) THEN <<>>
  ELSE EdgeGates(edges[k], angle) \o ProblemGatesFrom(edges, k + 1, angle)

ProblemGates(g, angle) == ProblemGatesFrom(g.edges, 1, angle)

\* Lines 150-151.
MixerGates(g, angle) ==
  [i \in 1 .. g.n |-> Gate("rx", -1, i - 1, 2 * angle)]

\* The parameter vectors explored: distinct angles 1, 2, ..., len.
Thetas == {[k \in 1 .. len |-> k] : len \in 0 .. MaxThetaLen}

\* Line 209: expectation = get_expectation(G, p, shots).
InitQaoa ==
  /\ toFactor = 0
  /\ pc = "done"
  /\ base = 0
  /\ qubitCount = 0
  /\ y = 0
  /\ r = 0
  /\ apowrhalf = 0
  /\ f1 = 0
  /\ f2 = 0
  /\ bound = {}
  /\ out = <<>>
  /\ raised = FALSE
  /\ PairIdle
  /\ G \in {g \in Graphs : WellFormed(g)}
  /\ pArg \in 0 .. MaxP
  /\ shots \in 0 .. MaxShots
  /\ theta = <<>>
  /\ qpc = "executor"
  /\ irep = 0
  /\ gates = <<>>
  /\ counts = <<>>
  /\ objOf = <<>>
  /\ expectation = [numerator |-> 0, denominator |-> 1]
  /\ qraised = FALSE
  /\ ZneIdle

\* Lines 167-169 and 130-135: execute_circ(theta) enters run_qaoa_circ.
ExecuteCirc ==
  /\ qpc = "executor"
  /\ \E th \in Thetas : theta' = th
  /\ irep' = 0
  /\ gates' = <<>>
  /\ qpc' = "initial"
  /\ UNCHANGED <<G, pArg, shots, counts, objOf, expectation, qraised>>
  /\ UNCHANGED <<shorVars, pairVars, zneVars>>

\* Lines 138-139.
InitialState ==
  /\ qpc = "initial"
  /\ gates' = gates \o InitialStateGates(G)
  /\ qpc' = IF irep < Repetitions(theta) THEN "problem" ELSE "measure"
  /\ UNCHANGED <<G, pArg, shots, theta, irep, counts, objOf, expectation,
                 qraised>>
  /\ UNCHANGED <<shorVars, pairVars, zneVars>>

\* Lines 144-147.
ProblemUnitary ==
  /\ qpc = "problem"
  /\ gates' = gates \o ProblemGates(G, Gamma(theta)[irep + 1])
  /\ qpc' = "mixer"
  /\ UNCHANGED <<G, pArg, shots, theta, irep, counts, objOf, expectation,
                 qraised>>
  /\ UNCHANGED <<shorVars, pairVars, zneVars>>

\* Lines 150-151, and the step of the loop of line 141.
MixerUnitary ==
  /\ qpc = "mixer"
  /\ gates' = gates \o MixerGates(G, Beta(theta)[irep + 1])
  /\ irep' = irep + 1
  /\ qpc' = IF irep + 1 < Repetitions(theta) THEN "problem" ELSE "measure"
  /\ UNCHANGED <<G, pArg, shots, theta, counts, objOf, expectation, qraised>>
  /\ UNCHANGED <<shorVars, pairVars, zneVars>>

\* Line 153: Counter(qc.measure_shots(range(0, nqubits), shots)).
MeasureShots ==
  /\ qpc = "measure"
  /\ \E samples \in [1 .. shots -> 0 .. (Pow2(G.n) - 1)] :
       counts' = Counter(samples)
  /\ qpc' = "expectation"
  /\ UNCHANGED <<G, pArg, shots, theta, irep, gates, objOf, expectation,
                 qraised>>
  /\ UNCHANGED <<shorVars, pairVars, zneVars>>

\* Line 171: compute_expectation(counts, G).
ComputeExpectation ==
  /\ qpc = "expectation"
  /\ objOf' = [b \in DOMAIN counts |-> maxcut_obj(b, G)]
  /\ IF ComputeExpectationRaises(counts, G)
     THEN /\ qraised' = TRUE
          /\ UNCHANGED expectation
     ELSE /\ expectation' = compute_expectation(counts, G)
          /\ UNCHANGED qraised
  /\ qpc' = "returned"
  /\ UNCHANGED <<G, pArg, shots, theta, irep, gates, counts>>
  /\ UNCHANGED <<shorVars, pairVars, zneVars>>

NextQaoa ==
  \/ ExecuteCirc
  \/ InitialState
  \/ ProblemUnitary
  \/ MixerUnitary
  \/ MeasureShots
  \/ ComputeExpectation

SpecQaoa == InitQaoa /\ [][NextQaoa]_vars

----------------------------------------------------------------------------
\* The noise-mitigation notebook (src/unnamed/part_000, lines 153-282).

\* The keys of get_counts(): bitstrings, one character per qubit.
Bitstrings(n) == [1 .. n -> {0, 1}]

\* String comparison of two bitstrings of the same length.
RECURSIVE LexLessFrom(_, _, _)
LexLessFrom(u, v, k) ==
  IF k > Len(u) THEN FALSE
  ELSE IF u[k] # v[k] THEN u[k] < v[k]
  ELSE LexLessFrom(u, v, k + 1)

LexLess(u, v) == LexLessFrom(u, v, 1)

\* max(counts): the largest key of a non-empty dict, as strings compare.
MaxKey(c) == CHOOSE u \in DOMAIN c : \A v \in DOMAIN c : ~LexLess(u, v)

\* Lines 172, 225, 281: (counts[key] if key in counts else 0) / shots.
ObservableValue(c, k, n) ==
  Fraction(IF k \in DOMAIN c THEN c[k] ELSE 0, n)

\* The Counter-like dicts a run of zshots shots over zqubits qubits returns.
RunCounts(q, n) == {Counter(samples) : samples \in [1 .. n -> Bitstrings(q)]}

InitZne ==
  /\ toFactor = 0
  /\ pc = "done"
  /\ base = 0
  /\ qubitCount = 0
  /\ y = 0
  /\ r = 0
  /\ apowrhalf = 0
  /\ f1 = 0
  /\ f2 = 0
  /\ bound = {}
  /\ out = <<>>
  /\ raised = FALSE
  /\ PairIdle
  /\ QaoaIdle
  /\ zshots \in 1 .. MaxZneShots
  /\ zqubits \in 1 .. MaxZneQubits
  /\ key = <<>>
  /\ zcounts = <<>>
  /\ value = [numerator |-> 0, denominator |-> 1]
  /\ zpc = "ideal"

\* Lines 166-173: the noiseless run sets the module-level key.
IdealRun ==
  /\ zpc = "ideal"
  /\ \E c \in RunCounts(zqubits, zshots) :
       /\ zcounts' = c
       /\ key' = MaxKey(c)
       /\ value' = ObservableValue(c, MaxKey(c), zshots)
  /\ zpc' = "noisy"
  /\ UNCHANGED <<zshots, zqubits>>
  /\ UNCHANGED <<shorVars, pairVars, qaoaVars>>

\* Lines 221-226: the noisy run outside the executor.
NoisyRun ==
  /\ zpc = "noisy"
  /\ \E c \in RunCounts(zqubits, zshots) :
       /\ zcounts' = c
       /\ value' = ObservableValue(c, key, zshots)
  /\ zpc' = "executor"
  /\ UNCHANGED <<zshots, zqubits, key>>
  /\ UNCHANGED <<shorVars, pairVars, qaoaVars>>

\* Lines 263-282: one call of executor(circuit) by execute_with_zne.
Executor ==
  /\ zpc \in {"executor", "executed"}
  /\ \E c \in RunCounts(zqubits, zshots) :
       /\ zcounts' = c
       /\ value' = ObservableValue(c, key, zshots)
  /\ zpc' = "executed"
  /\ UNCHANGED <<zshots, zqubits, key>>
  /\ UNCHANGED <<shorVars, pairVars, qaoaVars>>

NextZne ==
  \/ IdealRun
  \/ NoisyRun
  \/ Executor

SpecZne == InitZne /\ [][NextZne]_vars

----------------------------------------------------------------------------
\* Reference definitions used by the properties (not part of the program).

Printed(kind) == {i \in 1 .. Len(out) : out[i].kind = kind}

ResolverNames == {"qubitCount", "y", "r", "apowrhalf", "f1", "f2"}

\* The base is in the range the resolver's contract asks for.
ContractBase == 1 < base /\ base < toFactor /\ gcd(base, toFactor) = 1

\* Fractions p/d with 1 <= d <= maxDen nearest to num/den from below and
\* from above, for each d.
NearCandidates(num, den, maxDen) ==
  UNION {{<<(num * d) \div den, d>>, <<((num * d) \div den) + 1, d>>} :
         d \in 1 .. maxDen}

Distance(c, num, den) == Abs(c[1] * den - num * c[2])

\* c is at least as close to num/den as e.
AtLeastAsClose(c, e, num, den) ==
  Distance(c, num, den) * e[2] <= Distance(e, num, den) * c[2]

\* Denominators (in lowest terms) of the best rational approximations of
\* num/den with denominator at most maxDen.
BestDenominators(num, den, maxDen) ==
  LET C == NearCandidates(num, den, maxDen)
  IN {c[2] \div gcd(c[1], c[2]) :
        c \in {b \in C : \A e \in C : AtLeastAsClose(b, e, num, den)}}

----------------------------------------------------------------------------
\* C1: whenever the run prints 'Factors found', the printed pair satisfies
\* f1 * f2 = N, f1 > 1 and f2 > 1.
C1_SuccessPairIsFactorization ==
  \A i \in Printed("FactorsFound") :
    /\ out[i].v1 * out[i].v2 = toFactor
    /\ out[i].v1 > 1
    /\ out[i].v2 > 1

C1_Witness ==
  /\ pc = "done"
  /\ Printed("FactorsFound") # {}
  /\ toFactor = 21

\* C2: for N >= 2, a base with 1 < a < N coprime to N and any measured y,
\* no resolver step raises, and the finished run has printed exactly one
\* result line, 'Factors found' or 'Failed'.
C2_ResolverNeverRaises ==
  ContractBase /\ "base" \in bound =>
    /\ ~raised
    /\ pc = "done" =>
         /\ Len(out) = 1
         /\ out[1].kind \in {"FactorsFound", "Failed"}

C2_Witness ==
  /\ pc = "done"
  /\ ContractBase
  /\ ~raised
  /\ Len(out) = 1
  /\ out[1].kind = "Failed"
  /\ toFactor = 3

\* C3: the period candidate r, as first computed from y, is the denominator
\* of the best rational approximation of y / 2^n with denominator at most
\* N - 1.
C3_PeriodIsBestDenominator ==
  pc = "double" =>
    r \in BestDenominators(y, Pow2(qubitCount), toFactor - 1)

\* C4: the composite-correction pass replaces (f1, f2) by
\* (f1*f2, N / (f1*f2)) exactly when f1*f2 # N, f1*f2 > 1 and f1*f2 divides
\* N, the corrected pair then multiplies to N; otherwise the pair is kept.
C4_CorrectionPass ==
  [][pc = "correct" =>
       IF f1 * f2 # toFactor /\ f1 * f2 > 1 /\ toFactor % (f1 * f2) = 0
       THEN /\ f1' = f1 * f2
            /\ f2' = toFactor \div (f1 * f2)
            /\ f1' * f2' = toFactor
       ELSE f1' = f1 /\ f2' = f2]_vars

C4_Witness ==
  /\ pc = "test"
  /\ f1 # gcd(apowrhalf + 1, toFactor)
  /\ f1 = gcd(apowrhalf + 1, toFactor) * gcd(apowrhalf - 1, toFactor)
  /\ f1 * f2 = toFactor

\* C5: for N = 15 and a = 7 (n = 4), every measured y whose fraction y/16
\* has best-approximation denominator 4 ends in success with the pair
\* (3, 5) or (5, 3).
C5_KnownFactorization ==
  /\ toFactor = 15
  /\ base = 7
  /\ pc = "done"
  /\ 4 \in BestDenominators(y, 16, 14)
  => /\ Len(out) = 1
     /\ out[1].kind = "FactorsFound"
     /\ <<out[1].v1, out[1].v2>> \in {<<3, 5>>, <<5, 3>>}

C5_Witness ==
  /\ toFactor = 15
  /\ base = 7
  /\ y = 4
  /\ pc = "done"
  /\ out = <<Line("FactorsFound", 3, 5)>>

\* C6 as stated: for y = 0 and a contract base the resolver returns a
\* failure result without raising.
C6_ZeroMeasurementFails ==
  ContractBase /\ y = 0 /\ pc = "done" =>
    /\ ~raised
    /\ Len(out) = 1
    /\ out[1].kind = "Failed"

\* C6 amended: for y = 0 and a contract base the resolver does not raise;
\* the candidate is 1 (never 0), doubled to 2, so x = a mod N, and the result
\* is failure exactly when g = gcd(a+1, N) * gcd(a-1, N) is 1, or does not
\* divide N, or a = N - 1; otherwise it is success.
C6_ZeroMeasurementResult ==
  ContractBase /\ y = 0 /\ pc = "done" =>
    LET g == gcd(base + 1, toFactor) * gcd(base - 1, toFactor)
    IN /\ ~raised
       /\ r = 2
       /\ apowrhalf = base % toFactor
       /\ Len(out) = 1
       /\ out[1].kind \in {"FactorsFound", "Failed"}
       /\ out[1].kind = "Failed" <=>
            (g = 1 \/ toFactor % g # 0 \/ base = toFactor - 1)

C6_Witness ==
  /\ ContractBase
  /\ y = 0
  /\ pc = "done"
  /\ toFactor = 15
  /\ base = 7
  /\ out[1].kind = "FactorsFound"

\* C7: when the sampled base is not coprime to N the run reports gcd(a, N)
\* directly; no quantum or resolver variable is ever assigned and neither
\* 'Factors found' nor 'Failed' is printed.
C7_CoprimeBypass ==
  "base" \in bound /\ gcd(base, toFactor) # 1 =>
    /\ bound \cap ResolverNames = {}
    /\ Printed("FactorsFound") = {}
    /\ Printed("Failed") = {}
    /\ pc \in {"branch", "done"}
    /\ pc = "done" =>
         out = <<Line("NonRelativePrime", 0, 0),
                 Line("Factor", gcd(base, toFactor), 0)>>

C7_Witness ==
  /\ toFactor = 21
  /\ base = 3
  /\ pc = "done"
  /\ out = <<Line("NonRelativePrime", 0, 0), Line("Factor", 3, 0)>>
  /\ bound = {"base"}

\* C8: the factor printed by the non-coprime branch is a nontrivial factor
\* of N: 1 < g < N and g divides N.
C8_ReportedFactorNontrivial ==
  \A i \in Printed("Factor") :
    /\ 1 < out[i].v1
    /\ out[i].v1 < toFactor
    /\ toFactor % out[i].v1 = 0

\* C9: every base handed to the quantum subroutine and the resolver
\* satisfies 1 < a < N and gcd(a, N) = 1.
C9_ResolverBaseInRange ==
  "y" \in bound => ContractBase

\* C10: whenever x = a^(r/2) mod N is 1 or N - 1, the finished run reports
\* failure.
C10_DegenerateIsFailure ==
  /\ pc = "done"
  /\ "apowrhalf" \in bound
  /\ (apowrhalf = 1 \/ apowrhalf = toFactor - 1)
  => /\ ~raised
     /\ Len(out) = 1
     /\ out[1].kind = "Failed"

C10_Witness ==
  /\ pc = "done"
  /\ "apowrhalf" \in bound
  /\ apowrhalf = toFactor - 1
  /\ toFactor = 15
  /\ out = <<Line("Failed", 15, 1)>>

\* e is the multiplicative order of a modulo N: the least e >= 1 with
\* a^e = 1 (mod N).  Computed by plain repeated multiplication.
RECURSIVE PowerMod(_, _, _)
PowerMod(a, e, N) == IF e = 0 THEN 1 % N ELSE (a * PowerMod(a, e - 1, N)) % N

IsOrder(a, e, N) ==
  /\ e >= 1
  /\ PowerMod(a, e, N) = 1 % N
  /\ \A d \in 1 .. (e - 1) : PowerMod(a, d, N) # 1 % N

AloneResult(t) ==
  LET r0 == limit_denominator(FractionOfInt(t.y), t.N - 1).denominator
      r1 == IF r0 % 2 # 0 THEN 2 * r0 ELSE r0
      x  == PowerMod(t.a, r1 \div 2, t.N)
      g1 == gcd(x + 1, t.N)
      g2 == gcd(x - 1, t.N)
      fix == g1 * g2 # t.N /\ g1 * g2 > 1 /\ t.N % (g1 * g2) = 0
      h1 == IF fix THEN g1 * g2 ELSE g1
      h2 == IF fix THEN t.N \div (g1 * g2) ELSE g2
  IN IF h1 * h2 = t.N /\ h1 > 1 /\ h2 > 1
     THEN Line("FactorsFound", h1, h2)
     ELSE Line("Failed", h1, h2)

CutSize(x, g) ==
  Cardinality({k \in 1 .. Len(g.edges) :
                 Bit(x, g.edges[k][1]) # Bit(x, g.edges[k][2])})

RECURSIVE SumOver(_, _)
SumOver(S, f) ==
  IF S = {} THEN 0
  ELSE LET b == CHOOSE c \in S : TRUE IN f[b] + SumOver(S \ {b}, f)

\* C13: maxcut_obj(x, G) returns the number of edges of G whose endpoints
\* have different bits in x.
C13_MaxcutCountsCutEdges ==
  \A b \in DOMAIN objOf : objOf[b] = CutSize(b, G)

\* C14: the executor returned by get_expectation(G, p, shots) applies
\* exactly p repetitions of the (problem, mixer) unitaries, whatever theta
\* it is called with.
C14_RepetitionsEqualP ==
  qpc \in {"measure", "expectation", "returned"} =>
    irep = pArg

\* C15: for a non-empty counts mapping with positive total,
\* compute_expectation(counts, G) times the sum of the counts equals the sum
\* over the outcomes b of maxcut_obj(b, G) * counts[b].
C15_ExpectationIsWeightedMean ==
  qpc = "returned" /\ DOMAIN counts # {} /\ SumOver(DOMAIN counts, counts) > 0
    => /\ ~qraised
       /\ expectation.numerator * SumOver(DOMAIN counts, counts)
            = expectation.denominator
                * SumOver(DOMAIN counts,
                          [b \in DOMAIN counts |-> objOf[b] * counts[b]])

C15_Witness ==
  /\ qpc = "returned"
  /\ G = NotebookGraph
  /\ counts = (5 :> 1) @@ (3 :> 1)
  /\ expectation = [numerator |-> -3, denominator |-> 1]

AllZeros(n) == [k \in 1 .. n |-> 0]

\* C16: executor returns the number of shots whose outcome is the all-zeros
\* bitstring divided by shots (0 when it never occurs), whatever earlier
\* runs produced.
C16_ExecutorMeasuresAllZeros ==
  zpc = "executed" =>
    LET zeros == IF AllZeros(zqubits) \in DOMAIN zcounts
                 THEN zcounts[AllZeros(zqubits)] ELSE 0
    IN value.numerator * zshots = zeros * value.denominator

\* C17: the doubling step replaces an odd r by 2r and leaves an even r
\* unchanged, so r is even and at least 2 where x = a^(r/2) mod N is
\* computed, and r >> 1 is exactly r / 2.
C17_ExponentEven ==
  [][pc = "double" =>
       /\ r' = (IF r % 2 = 1 THEN 2 * r ELSE r)
       /\ pc' = "modexp"
       /\ r' % 2 = 0
       /\ r' >= 2
       /\ 2 * (r' \div 2) = r']_vars

C17_Witness ==
  /\ pc = "modexp"
  /\ r = 2
  /\ "apowrhalf" \notin bound

\* C18: the period candidate of step 1 satisfies 1 <= r <= N - 1, and after
\* the doubling step r <= 2 (N - 1).
C18_PeriodCandidateBounds ==
  /\ pc = "double" => 1 <= r /\ r <= toFactor - 1
  /\ "r" \in bound => 1 <= r /\ r <= 2 * (toFactor - 1)

C18_Witness ==
  /\ pc = "double"
  /\ toFactor = 2
  /\ r = 1

StepRank(s) ==
  CASE s = "sample" -> 0
    [] s = "branch" -> 1
    [] s = "period" -> 2
    [] s = "double" -> 3
    [] s = "modexp" -> 4
    [] s = "gcds" -> 5
    [] s = "correct" -> 6
    [] s = "test" -> 7
    [] s = "done" -> 8

TerminalLines(o) ==
  {i \in 1 .. Len(o) : o[i].kind \in {"Factor", "FactorsFound", "Failed"}}

\* C19: single pass: every step moves the run forward, so the base is
\* sampled once and the pair computed at most once; a base once sampled is
\* never replaced; exactly one terminal line is printed, by the step that
\* ends the run.
C19_SinglePass ==
  [][/\ StepRank(pc') > StepRank(pc)
     /\ "base" \in bound => base' = base
     /\ "y" \in bound => y' = y
     /\ Cardinality(TerminalLines(out')) = (IF pc' = "done" THEN 1 ELSE 0)]_vars

C19_Witness ==
  /\ pc = "done"
  /\ Len(out) = 1
  /\ out[1].kind = "Failed"
  /\ toFactor = 21
  /\ base = 20

\* C20: a run that enters the post-processing eventually prints its result,
\* 'Factors found' or 'Failed'.
C20_ResolverTerminates ==
  (pc = "period") ~>
     (/\ pc = "done"
      /\ ~raised
      /\ Len(out) = 1
      /\ out[1].kind \in {"FactorsFound", "Failed"})

C20_Witness ==
  /\ pc = "done"
  /\ ~raised
  /\ toFactor = 21
  /\ y = 31
  /\ Len(out) = 1
  /\ out[1].kind = "FactorsFound"

----------------------------------------------------------------------------
\* The result line as a function of the number and the base alone: the
\* exponent is 2, x is a mod N, and the measured value appears nowhere.
MeasurementFreeResult(N, a) ==
  LET x  == a % N
      g1 == gcd(x + 1, N)
      g2 == gcd(x - 1, N)
      fix == g1 * g2 # N /\ g1 * g2 > 1 /\ N % (g1 * g2) = 0
      h1 == IF fix THEN g1 * g2 ELSE g1
      h2 == IF fix THEN N \div (g1 * g2) ELSE g2
  IN IF h1 * h2 = N /\ h1 > 1 /\ h2 > 1
     THEN Line("FactorsFound", h1, h2)
     ELSE Line("Failed", h1, h2)

\* C21: the result does not depend on the measured value.  Whatever y was
\* measured, line 707 yields r = 1, line 711 doubles it to 2, x is
\* a mod N, and the printed outcome and pair are those determined by
\* (N, a) alone; two runs on the same (N, a) with measurements y1 and y2
\* therefore agree on r, x, the outcome and the pair.
C21_ResultIndependentOfMeasurement ==
  /\ pc = "double" => r = 1
  /\ pc \in {"modexp", "gcds", "correct", "test"} => r = 2
  /\ pc = "done" /\ "r" \in bound => r = 2
  /\ "apowrhalf" \in bound => apowrhalf = base % toFactor
  /\ pc = "done" /\ "f1" \in bound
       => out = <<MeasurementFreeResult(toFactor, base)>>

C21_Witness ==
  /\ pc = "done"
  /\ toFactor = 21
  /\ base = 8
  /\ y = 5
  /\ r = 2
  /\ apowrhalf = 8
  /\ out = <<Line("FactorsFound", 3, 7)>>

\* C22: whenever the correction of lines 715-716 replaces the pair, the run
\* ends in success: the new f1 is the product of the two gcds and is > 1,
\* the new f2 is N divided by that product and is > 1; a 'Failed' line
\* therefore always carries the pair (gcd(x+1, N), gcd(x-1, N)) of lines
\* 713-714.  (A replacement always changes the pair: its guard excludes a
\* product equal to N.)
C22_ReplacedPairSucceeds ==
  "f1" \in bound /\ pc \in {"test", "done"} =>
    LET g1 == gcd(apowrhalf + 1, toFactor)
        g2 == gcd(apowrhalf - 1, toFactor)
        replaced == <<f1, f2>> # <<g1, g2>>
    IN /\ replaced => /\ f1 = g1 * g2
                      /\ f1 > 1
                      /\ f2 > 1
                      /\ f2 * (g1 * g2) = toFactor
       /\ replaced /\ pc = "done" => out = <<Line("FactorsFound", f1, f2)>>
       /\ pc = "done" /\ out[1].kind = "Failed"
            => out = <<Line("Failed", g1, g2)>>

C22_Witness ==
  /\ pc = "done"
  /\ toFactor = 21
  /\ base = 2
  /\ gcd(apowrhalf + 1, toFactor) = 3
  /\ gcd(apowrhalf - 1, toFactor) = 1
  /\ f1 = 3
  /\ f2 = 7
  /\ out = <<Line("FactorsFound", 3, 7)>>

\* C23: for odd N, whenever the exponent r used at line 712 is even with
\* a^r mod N = 1 and x = a^(r/2) mod N is neither 1 nor N - 1, the two gcds
\* of lines 713-714 are both strictly between 1 and N and multiply to N, the
\* correction of lines 715-716 leaves them alone, and the run prints
\* success with exactly that pair.
C23_NontrivialRootSucceeds ==
  /\ toFactor % 2 = 1
  /\ "f1" \in bound
  /\ r % 2 = 0
  /\ PowerMod(base, r, toFactor) = 1
  /\ apowrhalf = PowerMod(base, r \div 2, toFactor)
  /\ apowrhalf \notin {1, toFactor - 1}
  => LET g1 == gcd(apowrhalf + 1, toFactor)
         g2 == gcd(apowrhalf - 1, toFactor)
     IN /\ g1 * g2 = toFactor
        /\ 1 < g1 /\ g1 < toFactor
        /\ 1 < g2 /\ g2 < toFactor
        /\ f1 = g1
        /\ f2 = g2
        /\ pc = "done" => out = <<Line("FactorsFound", g1, g2)>>

C23_Witness ==
  /\ pc = "done"
  /\ toFactor = 15
  /\ base = 11
  /\ r = 2
  /\ PowerMod(base, r, toFactor) = 1
  /\ apowrhalf = 11
  /\ f1 = 3
  /\ f2 = 5
  /\ out = <<Line("FactorsFound", 3, 5)>>

\* C24: for odd N and a base coprime to N, the gcds g1 = gcd(x+1, N) and
\* g2 = gcd(x-1, N) of lines 713-714 are coprime divisors of N, so their
\* product divides N; the run prints 'Failed' exactly when g1 * g2 = 1 or
\* {g1, g2} = {1, N}, and prints 'Factors found' in every other case.
C24_FailureExactlyWhenTrivial ==
  /\ toFactor % 2 = 1
  /\ gcd(base, toFactor) = 1
  /\ "f1" \in bound
  => LET g1 == gcd(apowrhalf + 1, toFactor)
         g2 == gcd(apowrhalf - 1, toFactor)
         trivial == g1 * g2 = 1 \/ {g1, g2} = {1, toFactor}
     IN /\ gcd(g1, g2) = 1
        /\ toFactor % g1 = 0
        /\ toFactor % g2 = 0
        /\ toFactor % (g1 * g2) = 0
        /\ pc = "done" =>
             /\ Len(out) = 1
             /\ trivial => out[1].kind = "Failed"
             /\ ~trivial => out[1].kind = "FactorsFound"

C24_Witness ==
  /\ pc = "done"
  /\ toFactor = 7
  /\ base = 3
  /\ gcd(apowrhalf + 1, toFactor) * gcd(apowrhalf - 1, toFactor) = 1
  /\ out = <<Line("Failed", 1, 1)>>

----------------------------------------------------------------------------
\* The gates one layer applies: three per edge and one per qubit.
LayerSize(g) == 3 * Len(g.edges) + g.n

\* The k-th gate (k = 1, 2, ...) of the circuit the ordering of C25
\* describes for graph g and parameters th, by its position alone: g.n
\* Hadamards, then the layers, each made of the edges' CNOT-RZ-CNOT triples
\* followed by one RX per qubit.
ExpectedGate(g, th, k) ==
  IF k <= g.n
  THEN [name |-> "h", control |-> -1, target |-> k - 1, angle |-> 0]
  ELSE LET j     == k - g.n - 1
           layer == j \div LayerSize(g)
           off   == j % LayerSize(g)
           p     == Len(th) \div 2
       IN IF off < 3 * Len(g.edges)
          THEN LET pair == g.edges[(off \div 3) + 1]
               IN IF off % 3 = 1
                  THEN [name |-> "rz", control |-> -1, target |-> pair[2],
                        angle |-> 2 * th[p + layer + 1]]
                  ELSE [name |-> "mcx", control |-> pair[1],
                        target |-> pair[2], angle |-> 0]
          ELSE [name |-> "rx", control |-> -1,
                target |-> off - 3 * Len(g.edges),
                angle |-> 2 * th[layer + 1]]

\* C25: the gates of run_qaoa_circ come in this order: a Hadamard on every
\* qubit first; then, for irep = 0 .. p-1 in increasing order, the problem
\* unitary (per edge: CNOT, RZ(2*gamma[irep]) on the target, CNOT) on all
\* edges before the mixer RX(2*beta[irep]) on any qubit; the measurement is
\* taken only once the last layer is applied; the circuit then counts
\* n + p * (3*|E| + n) gates, with p = len(theta) // 2.
C25_GateOrdering ==
  LET p     == Len(theta) \div 2
      total == G.n + p * LayerSize(G)
  IN /\ \A k \in 1 .. Len(gates) : gates[k] = ExpectedGate(G, theta, k)
     /\ qpc = "problem" => irep < p /\ Len(gates) = G.n + irep * LayerSize(G)
     /\ qpc = "mixer" =>
          /\ irep < p
          /\ Len(gates) = G.n + irep * LayerSize(G) + 3 * Len(G.edges)
     /\ qpc \in {"measure", "expectation", "returned"} =>
          irep = p /\ Len(gates) = total
     /\ qpc \in {"executor", "initial", "problem", "mixer", "measure"} =>
          counts = <<>>

C25_Witness ==
  /\ qpc = "returned"
  /\ G = NotebookGraph
  /\ theta = <<1, 2, 3, 4>>
  /\ Len(gates) = 36
  /\ gates[5] = [name |-> "mcx", control |-> 0, target |-> 1, angle |-> 0]
  /\ gates[6] = [name |-> "rz", control |-> -1, target |-> 1, angle |-> 6]
  /\ gates[17] = [name |-> "rx", control |-> -1, target |-> 0, angle |-> 2]
  /\ gates[22] = [name |-> "rz", control |-> -1, target |-> 1, angle |-> 8]
  /\ gates[36] = [name |-> "rx", control |-> -1, target |-> 3, angle |-> 4]

====
